---- MODULE Spec2Model ----
(***************************************************************************)
(* magic_static: one-time initialization cells (MagicStatic<T>), their     *)
(* __init operation in the atomic and in the bare-metal build, Deref, and  *)
(* the ordered group initializer generated by init! / #[magic_static::main] *)
(***************************************************************************)
EXTENDS Integers, Sequences, FiniteSets, TLC

(* ------------------------------ bounds -------------------------------- *)

\* threads that call __init / deref directly
NThreads == 2
\* magic statics the direct callers contend on
NSlots == 1
\* direct __init calls, over all threads
MaxCalls == 2
\* group runs per thread
MaxRuns == 2
\* spurious failures of compare_exchange_weak over a whole behaviour
MaxSpurious == 1
\* threads that run group initializers
NRunners == 1
\* threads that call __init directly while group initializers run
NRivals == 1
\* direct __init calls while group initializers run, over all such threads
MaxRivalCalls == 1

Threads == 1..NThreads
Slots == 1..NSlots
Runners == 1..NRunners
Rivals == (NRunners + 1)..(NRunners + NRivals)

(* --------------------------- the declarations ------------------------- *)

\* storage: UnsafeCell<MaybeUninit<T>>, before the first write
Uninit == [st |-> "uninit", v |-> 0]
\* storage while a non-atomic ptr::write is in progress
Torn == [st |-> "torn", v |-> 0]
\* storage holding one completely written producer result
Full(n) == [st |-> "full", v |-> n]

\* a group entry that names a magic static: `path` => path.__init()
Item(s) == [kind |-> "item", ref |-> s]
\* a group entry that names a module: `mod path` => path::magic_static()
Mod(g) == [kind |-> "mod", ref |-> g]

\* The declared groups: group 1 holds a nested group followed by a direct
\* static, group 2 a static, a nested group and a static, group 3 two statics.
Groups ==
  << <<Mod(2), Item(5)>>,
     <<Item(1), Mod(3), Item(4)>>,
     <<Item(2), Item(3)>> >>
GroupIds == DOMAIN Groups
GroupSlots == 1..5

VARIABLES
  bare,         \* feature "bare-metal": UnsafeCell<bool> flag, no atomics
  checked,      \* cfg(debug_assertions)
  initialized,  \* MagicStatic::initialized, per static
  value,        \* MagicStatic::value, per static
  pc,           \* where each thread is
  stack,        \* each thread's chain of running magic_static() functions
  cur,          \* the static whose __init a thread is in (0: none)
  res,          \* the producer result a thread is carrying
  entry,        \* the flag as the thread's current __init first read it
  calls,        \* per static: how often (self.init)() was invoked
  log,          \* per thread: the statics whose producers its current (or last)
                \* group run invoked, in the order it invoked them
  ret,          \* the __init call that ended with the step just taken (kind "none": none did)
  obs,          \* the deref made by the step just taken (s = 0: none): its static,
                \* whether it returned, the flag and the storage it met
  run,          \* per thread: the group of its last group run (0: none)
  nruns,        \* per thread: group runs started
  ncalls,       \* direct __init calls made so far
  spurious,     \* spurious compare_exchange_weak failures so far
  npanics,      \* producer panics so far
  poisoned,     \* the statics a producer of which has panicked
  stale         \* per thread: its last group run was entered with a static that the
                \* group lists already initialized

vars == <<bare, checked, initialized, value, pc, stack, cur, res, entry,
          calls, log, ret, obs, run, nruns, ncalls, spurious, npanics,
          poisoned, stale>>

shared == <<initialized, value, calls, log>>
locals == <<pc, stack, cur, res, entry>>
config == <<bare, checked>>

AllThreads == DOMAIN pc
AllSlots == DOMAIN initialized
\* the bare-metal build has no threads: one caller only
Live == IF bare THEN {1} ELSE AllThreads

NoRet == [t |-> 0, s |-> 0, kind |-> "none", entry |-> FALSE]
NoObs == [s |-> 0, ok |-> FALSE, flag |-> FALSE, view |-> Uninit]

InitWith(T, S) ==
  /\ bare \in BOOLEAN
  /\ checked \in BOOLEAN
  /\ initialized = [s \in S |-> FALSE]
  /\ value = [s \in S |-> Uninit]
  /\ pc = [t \in T |-> "idle"]
  /\ stack = [t \in T |-> <<>>]
  /\ cur = [t \in T |-> 0]
  /\ res = [t \in T |-> 0]
  /\ entry = [t \in T |-> FALSE]
  /\ calls = [s \in S |-> 0]
  /\ log = [t \in T |-> <<>>]
  /\ ret = NoRet
  /\ obs = NoObs
  /\ run = [t \in T |-> 0]
  /\ nruns = [t \in T |-> 0]
  /\ ncalls = 0
  /\ spurious = 0
  /\ npanics = 0
  /\ poisoned = {}
  /\ stale = [t \in T |-> FALSE]

Init == InitWith(Threads, Slots)

InitGroup == InitWith(Runners \cup Rivals, GroupSlots)

(* ------------------------------ helpers ------------------------------- *)

Local(t, p, stk, c, r, e) ==
  /\ pc' = [pc EXCEPT ![t] = p]
  /\ stack' = [stack EXCEPT ![t] = stk]
  /\ cur' = [cur EXCEPT ![t] = c]
  /\ res' = [res EXCEPT ![t] = r]
  /\ entry' = [entry EXCEPT ![t] = e]

\* a panic unwinds the thread's whole call chain (nothing catches it on the way)
Unwind(t, s, kind, e) ==
  /\ Local(t, "idle", <<>>, 0, 0, FALSE)
  /\ ret' = [t |-> t, s |-> s, kind |-> kind, entry |-> e]

\* the caller's frame after the statement `path.__init();` has completed
Advance(stk) ==
  IF stk = <<>> THEN stk
  ELSE [stk EXCEPT ![Len(stk)] = [@ EXCEPT !.i = @ + 1]]

\* __init returns normally to its caller
Return(t) ==
  /\ Local(t, IF stack[t] = <<>> THEN "idle" ELSE "walk", Advance(stack[t]), 0, 0, FALSE)
  /\ ret' = [t |-> t, s |-> cur[t], kind |-> "Ok", entry |-> entry[t]]

\* (self.init)() is invoked by thread t for static s
Invoke(t, s, stk, e) ==
  /\ calls' = [calls EXCEPT ![s] = @ + 1]
  /\ log' = IF stk = <<>> THEN log ELSE [log EXCEPT ![t] = Append(@, s)]
  /\ Local(t, "in_producer", stk, s, calls[s] + 1, e)
  /\ ret' = NoRet

(* ------------------------------- __init -------------------------------- *)

\* AtomicInit that returns quietly when the flag is already set
AtomicInitIdempotent(t, s, stk) ==
  IF initialized[s]
    THEN /\ Local(t, IF stk = <<>> THEN "idle" ELSE "walk", Advance(stk), 0, 0, FALSE)
         /\ ret' = [t |-> t, s |-> s, kind |-> "Ok", entry |-> TRUE]
         /\ UNCHANGED shared
    ELSE /\ Invoke(t, s, stk, FALSE)
         /\ UNCHANGED <<initialized, value>>

\* not(bare-metal): fetch_update loads the flag and calls the closure with it;
\* the closure answers None for true (fetch_update gives Err(true), __init
\* panics) and otherwise invokes the producer before any compare-exchange
AtomicInit(t, s, stk) ==
  IF initialized[s]
    THEN /\ Unwind(t, s, "AlreadyInit", TRUE)
         /\ UNCHANGED shared
    ELSE /\ Invoke(t, s, stk, FALSE)
         /\ UNCHANGED <<initialized, value>>

\* BareInit without its assert!: a second call initializes again
BareInitNoAssert(t, s, stk) ==
  /\ initialized' = [initialized EXCEPT ![s] = TRUE]
  /\ Invoke(t, s, stk, initialized[s])
  /\ UNCHANGED value

\* bare-metal: assert the flag is clear, set it, then invoke the producer
BareInit(t, s, stk) ==
  IF initialized[s]
    THEN /\ Unwind(t, s, "AlreadyInit", TRUE)
         /\ UNCHANGED shared
    ELSE /\ initialized' = [initialized EXCEPT ![s] = TRUE]
         /\ Invoke(t, s, stk, FALSE)
         /\ UNCHANGED value

\* MagicStatic::__init entered by thread t, called from the frames stk
InitEnter(t, s, stk) ==
  IF bare THEN BareInit(t, s, stk) ELSE AtomicInit(t, s, stk)

\* init! { path } / a direct call of path.__init()
DirectInit(t, s) ==
  /\ t \in Live
  /\ pc[t] = "idle"
  /\ ncalls < MaxCalls
  /\ InitEnter(t, s, <<>>)
  /\ ncalls' = ncalls + 1
  /\ obs' = NoObs
  /\ UNCHANGED <<config, run, stale, nruns, spurious, npanics, poisoned>>

\* the producer returns and ptr::write starts to store its result
ProducerReturn(t) ==
  /\ pc[t] = "in_producer"
  /\ value' = [value EXCEPT ![cur[t]] = Torn]
  /\ pc' = [pc EXCEPT ![t] = "writing"]
  /\ ret' = NoRet
  /\ obs' = NoObs
  /\ UNCHANGED <<config, initialized, calls, log, stack, cur, res, entry,
                 run, stale, nruns, ncalls, spurious, npanics, poisoned>>

\* ProducerPanic caught at the call: the caller goes on with its next statement
ProducerPanicCaught(t) ==
  /\ pc[t] = "in_producer"
  /\ Local(t, IF stack[t] = <<>> THEN "idle" ELSE "walk", Advance(stack[t]), 0, 0, FALSE)
  /\ ret' = [t |-> t, s |-> cur[t], kind |-> "ProducerPanic", entry |-> entry[t]]
  /\ npanics' = npanics + 1
  /\ poisoned' = poisoned \cup {cur[t]}
  /\ obs' = NoObs
  /\ UNCHANGED <<config, shared, run, stale, nruns, ncalls, spurious>>

\* the producer panics: __init unwinds, nothing is stored
ProducerPanic(t) ==
  /\ pc[t] = "in_producer"
  /\ Unwind(t, cur[t], "ProducerPanic", entry[t])
  /\ npanics' = npanics + 1
  /\ poisoned' = poisoned \cup {cur[t]}
  /\ obs' = NoObs
  /\ UNCHANGED <<config, shared, run, stale, nruns, ncalls, spurious>>

\* WriteEnd into a storage that all statics share
WriteEndShared(t) ==
  /\ pc[t] = "writing"
  /\ value' = [s \in AllSlots |-> Full(res[t])]
  /\ IF bare
       THEN Return(t)
       ELSE /\ pc' = [pc EXCEPT ![t] = "cas"]
            /\ ret' = NoRet
            /\ UNCHANGED <<stack, cur, res, entry>>
  /\ obs' = NoObs
  /\ UNCHANGED <<config, initialized, calls, log, run, stale, nruns, ncalls,
                 spurious, npanics, poisoned>>

\* ptr::write completes; the bare-metal __init then returns, the atomic one
\* goes on to fetch_update's compare_exchange_weak
WriteEnd(t) ==
  /\ pc[t] = "writing"
  /\ value' = [value EXCEPT ![cur[t]] = Full(res[t])]
  /\ IF bare
       THEN Return(t)
       ELSE /\ pc' = [pc EXCEPT ![t] = "cas"]
            /\ ret' = NoRet
            /\ UNCHANGED <<stack, cur, res, entry>>
  /\ obs' = NoObs
  /\ UNCHANGED <<config, initialized, calls, log, run, stale, nruns, ncalls, spurious, npanics, poisoned>>

\* compare_exchange_weak(false, true) succeeds: Ok(false), __init returns
CasSuccess(t) ==
  /\ pc[t] = "cas"
  /\ ~initialized[cur[t]]
  /\ initialized' = [initialized EXCEPT ![cur[t]] = TRUE]
  /\ Return(t)
  /\ obs' = NoObs
  /\ UNCHANGED <<config, value, calls, log, run, stale, nruns, ncalls, spurious, npanics, poisoned>>

\* compare_exchange_weak fails although the flag is still false: fetch_update
\* calls the closure again with false, which invokes the producer again
CasSpurious(t) ==
  /\ pc[t] = "cas"
  /\ ~initialized[cur[t]]
  /\ spurious < MaxSpurious
  /\ spurious' = spurious + 1
  /\ Invoke(t, cur[t], stack[t], entry[t])
  /\ obs' = NoObs
  /\ UNCHANGED <<config, initialized, value, run, stale, nruns, ncalls, npanics, poisoned>>

\* CasFail that polls the flag again instead of panicking
CasFailSpin(t) ==
  /\ pc[t] = "cas"
  /\ initialized[cur[t]]
  /\ ret' = NoRet
  /\ obs' = NoObs
  /\ UNCHANGED <<config, shared, locals, run, stale, nruns, ncalls, spurious,
                 npanics, poisoned>>

\* compare_exchange_weak fails because the flag is true by now: the closure
\* answers None, fetch_update gives Err(true), __init panics
CasFail(t) ==
  /\ pc[t] = "cas"
  /\ initialized[cur[t]]
  /\ Unwind(t, cur[t], "AlreadyInit", entry[t])
  /\ obs' = NoObs
  /\ UNCHANGED <<config, shared, run, stale, nruns, ncalls, spurious, npanics, poisoned>>

(* -------------------------------- deref -------------------------------- *)

\* Deref that initializes on first use, as a lazy static would
DerefLazy(t, s) ==
  /\ t \in Live
  /\ pc[t] \in {"idle", "in_producer"}
  /\ initialized' = [initialized EXCEPT ![s] = TRUE]
  /\ value' = [value EXCEPT ![s] = IF initialized[s] THEN @ ELSE Full(calls[s] + 1)]
  /\ calls' = [calls EXCEPT ![s] = IF initialized[s] THEN @ ELSE @ + 1]
  /\ obs' = [s |-> s, ok |-> TRUE, flag |-> TRUE, view |-> value'[s]]
  /\ ret' = NoRet
  /\ UNCHANGED <<config, locals, log, run, stale, nruns, ncalls, spurious, npanics, poisoned>>

\* Deref::deref by thread t, from its own code or from inside a producer it
\* is running: debug_assert!(self.initialized()), then a reference to value
Deref(t, s) ==
  /\ t \in Live
  /\ pc[t] \in {"idle", "in_producer"}
  /\ IF checked /\ ~initialized[s]
       THEN /\ obs' = [s |-> s, ok |-> FALSE, flag |-> FALSE, view |-> Uninit]
            /\ IF pc[t] = "in_producer"
                 THEN /\ Unwind(t, cur[t], "ProducerPanic", entry[t])
                      /\ npanics' = npanics + 1
                      /\ poisoned' = poisoned \cup {cur[t]}
                 ELSE /\ ret' = NoRet
                      /\ UNCHANGED <<locals, npanics, poisoned>>
       ELSE /\ obs' = [s |-> s, ok |-> TRUE, flag |-> initialized[s], view |-> value[s]]
            /\ ret' = NoRet
            /\ UNCHANGED <<locals, npanics, poisoned>>
  /\ UNCHANGED <<config, shared, run, stale, nruns, ncalls, spurious>>

(* --------------------------- direct callers ---------------------------- *)

Next ==
  \/ \E t \in AllThreads, s \in AllSlots : DirectInit(t, s)
  \/ \E t \in AllThreads, s \in AllSlots : Deref(t, s)
  \/ \E t \in AllThreads : ProducerReturn(t)
  \/ \E t \in AllThreads : ProducerPanic(t)
  \/ \E t \in AllThreads : WriteEnd(t)
  \/ \E t \in AllThreads : CasSuccess(t)
  \/ \E t \in AllThreads : CasSpurious(t)
  \/ \E t \in AllThreads : CasFail(t)

Spec == Init /\ [][Next]_vars

\* the next step of the __init call thread t is in: its producer comes back
\* (with a result or a panic), its write completes, its compare-exchange
\* gives an answer
Step(t) ==
  \/ ProducerReturn(t)
  \/ ProducerPanic(t)
  \/ WriteEnd(t)
  \/ CasSuccess(t)
  \/ CasSpurious(t)
  \/ CasFail(t)

\* every producer invocation terminates and every thread keeps being scheduled
Fairness == \A t \in Threads : WF_vars(Step(t))

SpecLive == Init /\ [][Next]_vars /\ Fairness

(* -------------------------- group initializers ------------------------- *)

\* the frame on top of a thread's call chain, and the entry it stands at
Top(t) == stack[t][Len(stack[t])]
AtEnd(t) == Top(t).i > Len(Groups[Top(t).g])
Here(t) == Groups[Top(t).g][Top(t).i]

\* the statics a group's list names directly (the `path` entries)
Listed(g) ==
  {Groups[g][i].ref : i \in {j \in DOMAIN Groups[g] : Groups[g][j].kind = "item"}}

\* a thread calls a group's magic_static() function (the block that
\* #[magic_static::main(...)] put first in it, or the init! it holds)
GroupEnter(t, g) ==
  /\ t \in Live \cap Runners
  /\ pc[t] = "idle"
  /\ nruns[t] < MaxRuns
  /\ Local(t, "walk", <<[g |-> g, i |-> 1]>>, 0, 0, FALSE)
  /\ run' = [run EXCEPT ![t] = g]
  /\ stale' = [stale EXCEPT ![t] = \E s \in Listed(g) : initialized[s]]
  /\ log' = [log EXCEPT ![t] = <<>>]
  /\ nruns' = [nruns EXCEPT ![t] = @ + 1]
  /\ ret' = NoRet
  /\ obs' = NoObs
  /\ UNCHANGED <<config, initialized, value, calls, ncalls, spurious, npanics, poisoned>>

\* the next statement of the block is `path.__init();`
WalkItem(t) ==
  /\ pc[t] = "walk"
  /\ ~AtEnd(t)
  /\ Here(t).kind = "item"
  /\ InitEnter(t, Here(t).ref, stack[t])
  /\ obs' = NoObs
  /\ UNCHANGED <<config, run, stale, nruns, ncalls, spurious, npanics, poisoned>>

\* WalkMod that steps over the nested group without calling it
WalkModSkip(t) ==
  /\ pc[t] = "walk"
  /\ ~AtEnd(t)
  /\ Here(t).kind = "mod"
  /\ stack' = [stack EXCEPT ![t] = Advance(@)]
  /\ ret' = NoRet
  /\ obs' = NoObs
  /\ UNCHANGED <<config, shared, pc, cur, res, entry, run, stale, nruns, ncalls,
                 spurious, npanics, poisoned>>

\* the next statement of the block is `path::magic_static();`
WalkMod(t) ==
  /\ pc[t] = "walk"
  /\ ~AtEnd(t)
  /\ Here(t).kind = "mod"
  /\ stack' = [stack EXCEPT ![t] = Append(@, [g |-> Here(t).ref, i |-> 1])]
  /\ ret' = NoRet
  /\ obs' = NoObs
  /\ UNCHANGED <<config, shared, pc, cur, res, entry, run, stale, nruns, ncalls,
                 spurious, npanics, poisoned>>

\* the block is through: magic_static() returns to the statement after its call
WalkReturn(t) ==
  /\ pc[t] = "walk"
  /\ AtEnd(t)
  /\ stack' = [stack EXCEPT ![t] = Advance(SubSeq(@, 1, Len(@) - 1))]
  /\ pc' = [pc EXCEPT ![t] = IF Len(stack[t]) = 1 THEN "idle" ELSE "walk"]
  /\ ret' = NoRet
  /\ obs' = NoObs
  /\ UNCHANGED <<config, shared, cur, res, entry, run, stale, nruns, ncalls,
                 spurious, npanics, poisoned>>

\* a thread other than the group's caller runs init! { path } meanwhile
RivalInit(t, s) ==
  /\ t \in Rivals
  /\ ncalls < MaxRivalCalls
  /\ DirectInit(t, s)

\* a producer dereferences a magic static (its own, or one it depends on)
ProducerDeref(t, s) ==
  /\ pc[t] = "in_producer"
  /\ Deref(t, s)

NextGroup ==
  \/ \E t \in AllThreads, g \in GroupIds : GroupEnter(t, g)
  \/ \E t \in AllThreads, s \in AllSlots : RivalInit(t, s)
  \/ \E t \in AllThreads : WalkItem(t)
  \/ \E t \in AllThreads : WalkMod(t)
  \/ \E t \in AllThreads : WalkReturn(t)
  \/ \E t \in AllThreads, s \in AllSlots : ProducerDeref(t, s)
  \/ \E t \in AllThreads : ProducerReturn(t)
  \/ \E t \in AllThreads : ProducerPanic(t)
  \/ \E t \in AllThreads : WriteEnd(t)
  \/ \E t \in AllThreads : CasSuccess(t)
  \/ \E t \in AllThreads : CasSpurious(t)
  \/ \E t \in AllThreads : CasFail(t)

SpecGroup == InitGroup /\ [][NextGroup]_vars

(* ======================= the claims, one by one ======================== *)

\* no producer has panicked and no compare-exchange has failed spuriously
NoFault == npanics = 0 /\ spurious = 0

\* C1: (atomic build) however many threads call __init concurrently on a
\* fresh static, its producer is invoked exactly once: never twice, and
\* once by the time any of the calls has returned.
C1_ProducerExactlyOnce ==
  (~bare /\ NoFault) =>
    \A s \in AllSlots :
      /\ calls[s] <= 1
      /\ (ret.kind = "Ok" /\ ret.s = s => calls[s] = 1)

\* C2: (atomic build) every __init call that met the static fresh returns
\* normally; the threads that lose the race do not panic.
C2_LosersReturnNormally ==
  (~bare /\ NoFault) => ~(ret.kind = "AlreadyInit" /\ ~ret.entry)

\* C3: (atomic build) __init on a static that is already initialized is a
\* no-op that returns without a panic.
C3_InitOfInitializedIsNoop ==
  ~bare => ~(ret.kind = "AlreadyInit" /\ ret.entry)

\* C4: (atomic build) once an __init call has returned, so that the flag
\* reads true, a deref that meets the flag set sees a completely written
\* producer result, never unwritten or half-written storage.
C4_ReadAfterInitSeesValue ==
  (~bare /\ NoFault) =>
    (obs.s # 0 /\ obs.ok /\ obs.flag => obs.view.st = "full")

\* C5: whenever a static's flag reads true, its storage holds one completely
\* written producer result and no thread is writing or is going to write it.
C5_InitializedMeansWritten ==
  (~bare /\ NoFault) =>
    \A s \in AllSlots :
      initialized[s] =>
        /\ value[s].st = "full"
        /\ \A t \in AllThreads :
             cur[t] = s => pc[t] \notin {"in_producer", "writing"}

\* the statics a group initializes, in declared depth-first order
RECURSIVE DfsFrom(_, _)
DfsFrom(g, i) ==
  IF i > Len(Groups[g]) THEN <<>>
  ELSE (IF Groups[g][i].kind = "item" THEN <<Groups[g][i].ref>>
        ELSE DfsFrom(Groups[g][i].ref, 1)) \o DfsFrom(g, i + 1)
Dfs(g) == DfsFrom(g, 1)
Range(q) == {q[k] : k \in DOMAIN q}
IsPrefix(p, q) == Len(p) <= Len(q) /\ SubSeq(q, 1, Len(p)) = p

\* the statics of the entries declared before the one a frame stands at
Earlier(f) ==
  UNION {IF Groups[f.g][j].kind = "item" THEN {Groups[f.g][j].ref}
         ELSE Range(Dfs(Groups[f.g][j].ref)) : j \in 1..(f.i - 1)}
\* the statics declared before the entry thread t's group run is executing
Before(t) == UNION {Earlier(stack[t][k]) : k \in DOMAIN stack[t]}

\* C6: while a group run executes the producer of one entry, every static
\* declared before that entry (nested groups included) is initialized: its
\* flag is set and its storage has been written.
C6_EarlierEntriesInitialized ==
  \A t \in AllThreads :
    (pc[t] = "in_producer" /\ stack[t] # <<>>) =>
      \A s \in Before(t) : initialized[s] /\ value[s].st # "uninit"

\* the producer of the static that follows a nested group is running
C6_Witness ==
  \E t \in AllThreads :
    /\ pc[t] = "in_producer"
    /\ cur[t] = 5
    /\ stack[t] = <<[g |-> 1, i |-> 2]>>
    /\ Before(t) = {1, 2, 3, 4}

\* thread t is in (or through) the only top-level call made so far
Solo(t) ==
  /\ run[t] # 0
  /\ nruns[t] = 1
  /\ ncalls = 0
  /\ \A u \in AllThreads \ {t} : nruns[u] = 0

\* C7: a group run on fresh statics invokes the producers in exactly the
\* declared depth-first, left-to-right order, nested groups in their place.
C7_DepthFirstOrder ==
  \A t \in AllThreads :
    (Solo(t) /\ npanics = 0) =>
      /\ IsPrefix(log[t], Dfs(run[t]))
      /\ (pc[t] = "idle" => log[t] = Dfs(run[t]))

\* C8: deref changes neither flag nor storage of any static and invokes no
\* producer, and it never has to wait: it can always complete at once.
C8_ReadOnlyReads ==
  /\ [][(obs'.s # 0 \/ \E t \in AllThreads, s \in AllSlots : Deref(t, s)) =>
          (initialized' = initialized /\ value' = value /\ calls' = calls)]_vars
  /\ [](\A t \in Live, s \in AllSlots :
          pc[t] \in {"idle", "in_producer"} => ENABLED Deref(t, s))

\* a deref of a static nobody has initialized, which stays that way
C8_Witness ==
  /\ obs.s # 0
  /\ ~initialized[obs.s]
  /\ calls[obs.s] = 0
  /\ value[obs.s] = Uninit

\* C9: in the checked build a deref that returns never hands out storage
\* into which no producer result has been written (stated for derefs made
\* while no __init call is in progress).
C9_CheckedReadNeverUninit ==
  (checked /\ \A t \in AllThreads : pc[t] = "idle") =>
    (obs.s # 0 /\ obs.ok => obs.view.st # "uninit")

\* the step is thread t entering __init of static s
Enters(t, s) ==
  /\ ncalls' = ncalls + 1
  /\ pc[t] = "idle"
  /\ \/ cur'[t] = s
     \/ ret'.t = t /\ ret'.s = s

C11_PoisonedNeverInitialized ==
  \A s \in poisoned :
    /\ ~initialized[s]
    /\ (checked /\ obs.s = s) => ~obs.ok

\* C12: after a producer of a static has panicked, no later __init call
\* invokes the producer of that static again.
C12_NoRetryAfterPanic ==
  [][\A s \in poisoned : calls'[s] = calls[s]]_vars

\* the statics a group run of thread t has left to initialize after the one
\* whose producer it invoked last
Pos(q, x) == CHOOSE k \in DOMAIN q : q[k] = x
Later(t) ==
  LET d == Dfs(run[t])
  IN {d[j] : j \in (Pos(d, log[t][Len(log[t])]) + 1)..Len(d)}

\* C13: a producer panic inside a group run ends the run there: the panic
\* unwinds every magic_static() frame of the caller, no producer of a later
\* entry is invoked, and the later entries stay uninitialized (flag clear,
\* storage unwritten) unless something else initializes them.
C13_PanicAbortsRun ==
  /\ ret.kind = "ProducerPanic" => pc[ret.t] = "idle" /\ stack[ret.t] = <<>>
  /\ \A t \in AllThreads :
       (Solo(t) /\ pc[t] = "idle" /\ npanics > 0) =>
         /\ npanics = 1
         /\ log[t] # <<>>
         /\ \A s \in Later(t) :
              calls[s] = 0 /\ ~initialized[s] /\ value[s] = Uninit

\* a run of group 1 was aborted by the producer of static 3, two levels down
C13_Witness ==
  \E t \in AllThreads :
    /\ Solo(t) /\ pc[t] = "idle" /\ npanics = 1
    /\ run[t] = 1
    /\ log[t] = <<1, 2, 3>>
    /\ Later(t) = {4, 5}
    /\ initialized[1] /\ initialized[2]

\* thread t is in (or through) its second group run, the first having
\* completed, with nothing else going on, and every static of the group it
\* runs now has been initialized: a replay of the first run's group, or of a
\* group nested in it
Replay(t) ==
  /\ run[t] # 0
  /\ nruns[t] = 2
  /\ ncalls = 0
  /\ NoFault
  /\ \A u \in AllThreads \ {t} : nruns[u] = 0
  /\ \A s \in Range(Dfs(run[t])) : calls[s] >= 1

\* C14: (atomic build, where __init is to be idempotent) a group run made a
\* second time after a completed first run invokes no producer again, raises
\* no error and leaves every static's flag and value as the first run left
\* them.
C14_GroupReplayIsNoop ==
  \A t \in AllThreads :
    (~bare /\ Replay(t)) =>
      /\ ~(ret.t = t /\ ret.kind = "AlreadyInit")
      /\ \A s \in Range(Dfs(run[t])) :
           calls[s] = 1 /\ initialized[s] /\ value[s] = Full(1)

SlotState(s) ==
  IF initialized[s] THEN "Initialized"
  ELSE IF \E t \in AllThreads : cur[t] = s THEN "Initializing"
  ELSE "Uninitialized"

\* C16: a static's state only ever moves Uninitialized -> Initializing and
\* Initializing -> Initialized: no other change of state happens, none goes
\* backwards.
C16_MonotonicStates ==
  [][\A s \in AllSlots :
       SlotState(s)' # SlotState(s) =>
         <<SlotState(s), SlotState(s)'>> \in
           {<<"Uninitialized", "Initializing">>, <<"Initializing", "Initialized">>}]_vars

\* C17: with terminating producers and fair scheduling every __init call
\* comes to an end, by returning or by panicking, however many threads
\* contend: no call waits or retries for ever.
C17_InitTerminates ==
  \A t \in Threads : (pc[t] # "idle") ~> (pc[t] = "idle")

\* every call has ended, one of them after a retry, the last of them a call
\* that lost the race
C17_Witness ==
  /\ \A t \in AllThreads : pc[t] = "idle"
  /\ spurious >= 1
  /\ ret.kind = "AlreadyInit"
  /\ ~ret.entry

\* C18: (atomic build) one __init call invokes the producer at most once,
\* also when its compare-exchange fails and the update is retried: a call
\* invokes the producer in the step that enters it or not at all, so no step
\* of a call that is already under way invokes it.
C18_OneInvocationPerCall ==
  [][~bare =>
       \A t \in AllThreads :
         (pc[t] # "in_producer" /\ pc'[t] = "in_producer" /\ calls' # calls) =>
           pc[t] \in {"idle", "walk"}]_vars

\* C19: an __init call that ends with the "already been initialized" panic
\* has had no effect: it panics in the step that enters it, before it has
\* invoked the producer or written storage or flag, and that step changes
\* none of them.
C19_AlreadyInitPanicHasNoEffect ==
  [][ret'.kind = "AlreadyInit" =>
       /\ pc[ret'.t] \in {"idle", "walk"}
       /\ initialized' = initialized
       /\ value' = value
       /\ calls' = calls]_vars

\* how often x occurs in the sequence q
Count(q, x) == Cardinality({k \in DOMAIN q : q[k] = x})

\* thread t is in (or through) its first group run, and the statics of its
\* group are its own: every invocation of their producers was made by this
\* run (whatever other threads do, they do to other statics)
Own(t) ==
  /\ run[t] # 0
  /\ nruns[t] = 1
  /\ \A s \in Range(Dfs(run[t])) : calls[s] = Count(log[t], s)

\* the step is thread t getting through its group run
Completes(t) == pc[t] = "walk" /\ pc'[t] = "idle" /\ ret'.kind = "none"

\* C20: __init of one static touches flag, storage and producer of that
\* static only: a step changes them for no static other than the one the
\* stepping thread's __init call is on. So a group run whose statics no
\* other thread initializes is not disturbed by what goes on elsewhere: it
\* meets no "already initialized" panic, and when it gets through, each of
\* its statics is initialized and holds the result of the run's own last
\* producer invocation, as when the run is made alone.
C20_DisjointRunsIndependent ==
  /\ [][\A s \in AllSlots :
          (initialized'[s] # initialized[s] \/ value'[s] # value[s]
             \/ calls'[s] # calls[s]) =>
            \E t \in AllThreads : pc'[t] # pc[t] /\ (cur[t] = s \/ cur'[t] = s)]_vars
  /\ [](\A t \in Runners : Own(t) => ~(ret.t = t /\ ret.kind = "AlreadyInit"))
  /\ [][\A t \in Runners :
          (Completes(t) /\ Own(t)) =>
            /\ spurious = 0 => log[t] = Dfs(run[t])
            /\ \A s \in Range(Dfs(run[t])) :
                 initialized'[s] /\ calls'[s] >= 1 /\ value'[s] = Full(calls'[s])]_vars

\* a group run has got through with its statics initialized while another
\* thread's init! on a static outside the group is still at its compare-exchange
C20_Witness ==
  \E t \in Runners, r \in Rivals :
    /\ pc[t] = "idle"
    /\ Own(t)
    /\ log[t] = Dfs(run[t])
    /\ \A s \in Range(Dfs(run[t])) : initialized[s] /\ value[s] = Full(1)
    /\ pc[r] = "cas"
    /\ cur[r] \notin Range(Dfs(run[t]))

====
